---- MODULE Spec2Model ----
(***************************************************************************)
(* The operating-mode lifecycle of one actuator of                         *)
(* layered_hardware_dynamixel: class DynamixelActuator                     *)
(* (include/layered_hardware_dynamixel/dynamixel_actuator.hpp) and its     *)
(* predecessor, class Actuator of dynamixel_hardware (unnamed/part_000).   *)
(*                                                                         *)
(* One actuator object is modelled.  Its members are the variables data_,  *)
(* mode_map_ and present_mode_; the handles it has put into the RobotHW    *)
(* are the variable registered.  Every method is one action: the calls are *)
(* synchronous and the host's control loop is single threaded.             *)
(* The hooks of the operating modes (starting, stopping, read, write) are  *)
(* opaque: the model records which hook was invoked on which instance and  *)
(* in what order, interleaved with the assignments to present_mode_.       *)
(***************************************************************************)
EXTENDS Integers, Sequences, FiniteSets, TLC

(***************************************************************************)
(* Bounds and input domains                                                *)
(***************************************************************************)

\* the most controllers one switch request names, starting and stopping
\* lists together
MaxRequestLen == 3

\* the controller names that occur, in the order std::map< std::string, . >
\* iterates them ("pos_ctrl" < "vel_ctrl")
ControllerNames == <<"pos_ctrl", "vel_ctrl">>

Controllers == {ControllerNames[i] : i \in DOMAIN ControllerNames}

\* the mode strings a configuration may give: two that makeOperatingMode
\* knows and one it does not
ConfigModeStrs == {"extended_position", "velocity", "no_such_mode"}

\* the controller lists of a switch request (names only; ControllerInfo's
\* other fields are not read)
ControllerLists == UNION {[1..n -> Controllers] : n \in 0..MaxRequestLen}

\* the switch requests: <<starting_controller_list, stopping_controller_list>>.
\* A name may occur twice in a list, or in both.
Requests ==
  UNION {[1..n -> Controllers] \X [1..m -> Controllers] :
           <<n, m>> \in {nm \in (0..MaxRequestLen) \X (0..MaxRequestLen) :
                            nm[1] + nm[2] <= MaxRequestLen}}

\* the name the actuator is given
ActuatorName == "joint"

(***************************************************************************)
(* Operating modes                                                         *)
(***************************************************************************)

\* the empty OperatingModePtr
NoMode == [id |-> "", name |-> ""]

\* A variant of NewMode that keeps one instance per mode string and hands it
\* out again: controller names of the same mode kind then share an instance.
NewMode_shared(mode_str, alloc) == [id |-> mode_str, name |-> mode_str]

\* std::make_shared< XxxMode >(data_, ...): a new instance.  Its identity is
\* the allocation: `alloc` is distinct for every call (init passes the key of
\* the entry it is building); its name is the mode string.
NewMode(mode_str, alloc) == [id |-> alloc, name |-> mode_str]

makeOperatingMode(mode_str, alloc) ==
  IF mode_str = "clear_multi_turn" THEN NewMode(mode_str, alloc)
  ELSE IF mode_str = "current" THEN NewMode(mode_str, alloc)
  ELSE IF mode_str = "current_based_position" THEN NewMode(mode_str, alloc)
  ELSE IF mode_str = "extended_position" THEN NewMode(mode_str, alloc)
  ELSE IF mode_str = "reboot" THEN NewMode(mode_str, alloc)
  ELSE IF mode_str = "torque_disable" THEN NewMode(mode_str, alloc)
  ELSE IF mode_str = "velocity" THEN NewMode(mode_str, alloc)
  ELSE NoMode

Actuator_makeOperatingMode(mode_str, alloc) ==
  IF mode_str = "current" THEN NewMode(mode_str, alloc)
  ELSE IF mode_str = "current_based_position" THEN NewMode(mode_str, alloc)
  ELSE IF mode_str = "extended_position" THEN NewMode(mode_str, alloc)
  ELSE IF mode_str = "reboot" THEN NewMode(mode_str, alloc)
  ELSE IF mode_str = "torque_disable" THEN NewMode(mode_str, alloc)
  ELSE IF mode_str = "velocity" THEN NewMode(mode_str, alloc)
  ELSE NoMode

(***************************************************************************)
(* std::map< std::string, OperatingModePtr >                               *)
(***************************************************************************)

EmptyMap == [k \in {} |-> NoMode]

\* m[key] = value
MapAssign(m, key, value) ==
  [k \in (DOMAIN m) \cup {key} |-> IF k = key THEN value ELSE m[k]]

\* m.find(key) != m.end()
MapHas(m, key) == key \in DOMAIN m

(***************************************************************************)
(* What a method does besides returning: the hooks it invokes and the      *)
(* assignments it makes to present_mode_, in program order.                *)
(***************************************************************************)

HookCall(hook, mode) == [call |-> hook, mode |-> mode.id]

AssignPresent(mode) == [call |-> "present_mode_ =", mode |-> mode.id]

NoEffect(pm) == [present |-> pm, events |-> <<>>]

(***************************************************************************)
(* DynamixelActuator::prepareSwitch                                        *)
(***************************************************************************)

\* A variant of the loop below that takes any stopping controller with an
\* entry to stop the present mode (no comparison with present_mode_).
RECURSIVE prepareSwitch_stopping_by_name(_, _, _, _)
prepareSwitch_stopping_by_name(n_modes, pm, mm, stopping_controller_list) ==
  IF stopping_controller_list = <<>> THEN n_modes
  ELSE IF MapHas(mm, Head(stopping_controller_list))
       THEN 0
       ELSE prepareSwitch_stopping_by_name(n_modes, pm, mm,
                                           Tail(stopping_controller_list))

\* the loop over stopping_controller_list, entered with n_modes != 0
RECURSIVE prepareSwitch_stopping(_, _, _, _)
prepareSwitch_stopping(n_modes, pm, mm, stopping_controller_list) ==
  IF stopping_controller_list = <<>> THEN n_modes
  ELSE IF /\ MapHas(mm, Head(stopping_controller_list))
          /\ mm[Head(stopping_controller_list)] = pm
       THEN 0
       ELSE prepareSwitch_stopping(n_modes, pm, mm, Tail(stopping_controller_list))

\* A variant of the loop below that counts the starting controllers by the
\* kind of their mode: two controllers of one mode kind count once.
prepareSwitch_starting_dedupe(n_modes, mm, starting_controller_list) ==
  n_modes
    + Cardinality({mm[starting_controller_list[i]].name :
                     i \in {j \in DOMAIN starting_controller_list :
                              /\ MapHas(mm, starting_controller_list[j])
                              /\ mm[starting_controller_list[j]] # NoMode}})

\* the loop over starting_controller_list
RECURSIVE prepareSwitch_starting(_, _, _)
prepareSwitch_starting(n_modes, mm, starting_controller_list) ==
  IF starting_controller_list = <<>> THEN n_modes
  ELSE prepareSwitch_starting(
         IF /\ MapHas(mm, Head(starting_controller_list))
            /\ mm[Head(starting_controller_list)] # NoMode
         THEN n_modes + 1 ELSE n_modes,
         mm, Tail(starting_controller_list))

\* the number of modes prepareSwitch has counted when it decides
prepareSwitch_n_modes(pm, mm, starting_controller_list, stopping_controller_list) ==
  LET n0 == IF pm # NoMode THEN 1 ELSE 0
      n1 == IF n0 # 0
            THEN prepareSwitch_stopping(n0, pm, mm, stopping_controller_list)
            ELSE n0
  IN  prepareSwitch_starting(n1, mm, starting_controller_list)

\* A variant of prepareSwitch whose starting loop reads mode_map_[name]
\* instead of mode_map_.find(name): the subscript inserts an empty entry for
\* every name that has none.
prepareSwitch_subscript(pm, mm, starting_controller_list, stopping_controller_list) ==
  LET n_modes == prepareSwitch_n_modes(pm, mm, starting_controller_list,
                                       stopping_controller_list)
      looked_up == {starting_controller_list[i] :
                      i \in DOMAIN starting_controller_list}
  IN  [ret      |-> ~(n_modes # 0 /\ n_modes # 1),
       present  |-> pm,
       mode_map |-> [k \in (DOMAIN mm) \cup looked_up |->
                       IF k \in DOMAIN mm THEN mm[k] ELSE NoMode],
       events   |-> <<>>]

\* A variant of prepareSwitch that rejects only more than two modes.
prepareSwitch_off_by_one(pm, mm, starting_controller_list, stopping_controller_list) ==
  LET n_modes == prepareSwitch_n_modes(pm, mm, starting_controller_list,
                                       stopping_controller_list)
  IN  [ret      |-> ~(n_modes > 2),
       present  |-> pm,
       mode_map |-> mm,
       events   |-> <<>>]

\* A variant of prepareSwitch that commits the stop it counts: it empties
\* present_mode_ when the stopping list names the present mode.
prepareSwitch_commits_stop(pm, mm, starting_controller_list, stopping_controller_list) ==
  LET n_modes == prepareSwitch_n_modes(pm, mm, starting_controller_list,
                                       stopping_controller_list)
      stops   == pm # NoMode
                   /\ prepareSwitch_stopping(1, pm, mm, stopping_controller_list) = 0
  IN  [ret      |-> ~(n_modes # 0 /\ n_modes # 1),
       present  |-> IF stops THEN NoMode ELSE pm,
       mode_map |-> mm,
       events   |-> <<>>]

\* The whole method: its return value and the members as it leaves them.  It
\* assigns no member and calls no hook; mode_map_.find() does not insert.
prepareSwitch(pm, mm, starting_controller_list, stopping_controller_list) ==
  LET n_modes == prepareSwitch_n_modes(pm, mm, starting_controller_list,
                                       stopping_controller_list)
  IN  [ret      |-> ~(n_modes # 0 /\ n_modes # 1),
       present  |-> pm,
       mode_map |-> mm,
       events   |-> <<>>]

(***************************************************************************)
(* DynamixelActuator::doSwitch                                             *)
(***************************************************************************)

\* A variant of the loop below that empties present_mode_ without calling
\* the mode's stopping().
RECURSIVE doSwitch_stopping_no_hook(_, _, _)
doSwitch_stopping_no_hook(pm, mm, stopping_controller_list) ==
  IF stopping_controller_list = <<>> THEN NoEffect(pm)
  ELSE IF /\ MapHas(mm, Head(stopping_controller_list))
          /\ mm[Head(stopping_controller_list)] = pm
       THEN [present |-> NoMode, events |-> <<AssignPresent(NoMode)>>]
       ELSE doSwitch_stopping_no_hook(pm, mm, Tail(stopping_controller_list))

\* A variant of the loop below that stops the present mode on the first
\* stopping controller that has an entry, whichever mode the entry holds.
RECURSIVE doSwitch_stopping_by_name(_, _, _)
doSwitch_stopping_by_name(pm, mm, stopping_controller_list) ==
  IF stopping_controller_list = <<>> THEN NoEffect(pm)
  ELSE IF MapHas(mm, Head(stopping_controller_list))
       THEN [present |-> NoMode,
             events  |-> <<HookCall("stopping", pm), AssignPresent(NoMode)>>]
       ELSE doSwitch_stopping_by_name(pm, mm, Tail(stopping_controller_list))

\* the loop over stopping_controller_list, entered with present_mode_ set
RECURSIVE doSwitch_stopping(_, _, _)
doSwitch_stopping(pm, mm, stopping_controller_list) ==
  IF stopping_controller_list = <<>> THEN NoEffect(pm)
  ELSE IF /\ MapHas(mm, Head(stopping_controller_list))
          /\ mm[Head(stopping_controller_list)] = pm
       THEN [present |-> NoMode,
             events  |-> <<HookCall("stopping", pm), AssignPresent(NoMode)>>]
       ELSE doSwitch_stopping(pm, mm, Tail(stopping_controller_list))

\* A variant of the loop below without the break: it starts the mode of
\* every starting controller that has one.
RECURSIVE doSwitch_starting_no_break(_, _, _)
doSwitch_starting_no_break(pm, mm, starting_controller_list) ==
  IF starting_controller_list = <<>> THEN NoEffect(pm)
  ELSE IF /\ MapHas(mm, Head(starting_controller_list))
          /\ mm[Head(starting_controller_list)] # NoMode
       THEN LET mode == mm[Head(starting_controller_list)]
                rest == doSwitch_starting_no_break(mode, mm,
                                                   Tail(starting_controller_list))
            IN  [present |-> rest.present,
                 events  |-> <<AssignPresent(mode), HookCall("starting", mode)>>
                               \o rest.events]
       ELSE doSwitch_starting_no_break(pm, mm, Tail(starting_controller_list))

\* A variant of the loop below that calls starting() on the mode it finds
\* but does not assign it to present_mode_.
RECURSIVE doSwitch_starting_unassigned(_, _, _)
doSwitch_starting_unassigned(pm, mm, starting_controller_list) ==
  IF starting_controller_list = <<>> THEN NoEffect(pm)
  ELSE IF /\ MapHas(mm, Head(starting_controller_list))
          /\ mm[Head(starting_controller_list)] # NoMode
       THEN [present |-> pm,
             events  |-> <<HookCall("starting",
                                    mm[Head(starting_controller_list)])>>]
       ELSE doSwitch_starting_unassigned(pm, mm, Tail(starting_controller_list))

\* A variant of the loop below that starts a new instance of the kind of the
\* mode it finds, in place of the instance mode_map_ holds.
RECURSIVE doSwitch_starting_copy(_, _, _)
doSwitch_starting_copy(pm, mm, starting_controller_list) ==
  IF starting_controller_list = <<>> THEN NoEffect(pm)
  ELSE IF /\ MapHas(mm, Head(starting_controller_list))
          /\ mm[Head(starting_controller_list)] # NoMode
       THEN LET mode == NewMode(mm[Head(starting_controller_list)].name, "copy")
            IN  [present |-> mode,
                 events  |-> <<AssignPresent(mode), HookCall("starting", mode)>>]
       ELSE doSwitch_starting_copy(pm, mm, Tail(starting_controller_list))

\* A variant of the loop below that looks at the first starting controller
\* only.
doSwitch_starting_front_only(pm, mm, starting_controller_list) ==
  IF starting_controller_list = <<>> THEN NoEffect(pm)
  ELSE IF /\ MapHas(mm, Head(starting_controller_list))
          /\ mm[Head(starting_controller_list)] # NoMode
       THEN LET mode == mm[Head(starting_controller_list)]
            IN  [present |-> mode,
                 events  |-> <<AssignPresent(mode), HookCall("starting", mode)>>]
       ELSE NoEffect(pm)

\* the loop over starting_controller_list, entered with present_mode_ empty
RECURSIVE doSwitch_starting(_, _, _)
doSwitch_starting(pm, mm, starting_controller_list) ==
  IF starting_controller_list = <<>> THEN NoEffect(pm)
  ELSE IF /\ MapHas(mm, Head(starting_controller_list))
          /\ mm[Head(starting_controller_list)] # NoMode
       THEN LET mode == mm[Head(starting_controller_list)]
            IN  [present |-> mode,
                 events  |-> <<AssignPresent(mode), HookCall("starting", mode)>>]
       ELSE doSwitch_starting(pm, mm, Tail(starting_controller_list))

\* A variant of doSwitch without the starting loop: it only stops.
doSwitch_stop_only(pm, mm, starting_controller_list, stopping_controller_list) ==
  IF pm # NoMode
  THEN doSwitch_stopping(pm, mm, stopping_controller_list)
  ELSE NoEffect(pm)

\* A variant of doSwitch without the test of present_mode_ before the
\* starting loop.
doSwitch_unguarded_start(pm, mm, starting_controller_list, stopping_controller_list) ==
  LET stopped == IF pm # NoMode
                 THEN doSwitch_stopping(pm, mm, stopping_controller_list)
                 ELSE NoEffect(pm)
      started == doSwitch_starting(stopped.present, mm, starting_controller_list)
  IN  [present |-> started.present,
       events  |-> stopped.events \o started.events]

\* A variant of doSwitch with the two steps in the other order: it starts
\* (when no mode is present) before it stops.
doSwitch_start_first(pm, mm, starting_controller_list, stopping_controller_list) ==
  LET started == IF pm = NoMode
                 THEN doSwitch_starting(pm, mm, starting_controller_list)
                 ELSE NoEffect(pm)
      stopped == IF started.present # NoMode
                 THEN doSwitch_stopping(started.present, mm,
                                        stopping_controller_list)
                 ELSE NoEffect(started.present)
  IN  [present |-> stopped.present,
       events  |-> started.events \o stopped.events]

doSwitch(pm, mm, starting_controller_list, stopping_controller_list) ==
  LET stopped == IF pm # NoMode
                 THEN doSwitch_stopping(pm, mm, stopping_controller_list)
                 ELSE NoEffect(pm)
      started == IF stopped.present = NoMode
                 THEN doSwitch_starting(stopped.present, mm, starting_controller_list)
                 ELSE NoEffect(stopped.present)
  IN  [present |-> started.present,
       events  |-> stopped.events \o started.events]

(***************************************************************************)
(* DynamixelActuator::read, write and the destructor                       *)
(***************************************************************************)

read(pm) ==
  IF pm # NoMode THEN [present |-> pm, events |-> <<HookCall("read", pm)>>]
  ELSE NoEffect(pm)

\* A variant of write that delegates to the mode's read().
write_as_read(pm) ==
  IF pm # NoMode THEN [present |-> pm, events |-> <<HookCall("read", pm)>>]
  ELSE NoEffect(pm)

write(pm) ==
  IF pm # NoMode THEN [present |-> pm, events |-> <<HookCall("write", pm)>>]
  ELSE NoEffect(pm)

destructor(pm) ==
  IF pm # NoMode
  THEN [present |-> NoMode,
        events  |-> <<HookCall("stopping", pm), AssignPresent(NoMode)>>]
  ELSE NoEffect(pm)

(***************************************************************************)
(* Actuator (dynamixel_hardware): doSwitch, read, write, destructor.       *)
(* The class has no prepareSwitch.                                         *)
(***************************************************************************)

RECURSIVE Actuator_doSwitch_stopping(_, _, _)
Actuator_doSwitch_stopping(pm, mm, stopping_controller_list) ==
  IF stopping_controller_list = <<>> THEN NoEffect(pm)
  ELSE IF /\ MapHas(mm, Head(stopping_controller_list))
          /\ mm[Head(stopping_controller_list)] = pm
       THEN [present |-> NoMode,
             events  |-> <<HookCall("stopping", pm), AssignPresent(NoMode)>>]
       ELSE Actuator_doSwitch_stopping(pm, mm, Tail(stopping_controller_list))

RECURSIVE Actuator_doSwitch_starting(_, _, _)
Actuator_doSwitch_starting(pm, mm, starting_controller_list) ==
  IF starting_controller_list = <<>> THEN NoEffect(pm)
  ELSE IF /\ MapHas(mm, Head(starting_controller_list))
          /\ mm[Head(starting_controller_list)] # NoMode
       THEN LET mode == mm[Head(starting_controller_list)]
            IN  [present |-> mode,
                 events  |-> <<AssignPresent(mode), HookCall("starting", mode)>>]
       ELSE Actuator_doSwitch_starting(pm, mm, Tail(starting_controller_list))

Actuator_doSwitch(pm, mm, starting_controller_list, stopping_controller_list) ==
  LET stopped == IF pm # NoMode
                 THEN Actuator_doSwitch_stopping(pm, mm, stopping_controller_list)
                 ELSE NoEffect(pm)
      started == IF stopped.present = NoMode
                 THEN Actuator_doSwitch_starting(stopped.present, mm,
                                                 starting_controller_list)
                 ELSE NoEffect(stopped.present)
  IN  [present |-> started.present,
       events  |-> stopped.events \o started.events]

Actuator_read(pm) ==
  IF pm # NoMode THEN [present |-> pm, events |-> <<HookCall("read", pm)>>]
  ELSE NoEffect(pm)

Actuator_write(pm) ==
  IF pm # NoMode THEN [present |-> pm, events |-> <<HookCall("write", pm)>>]
  ELSE NoEffect(pm)

\* virtual ~Actuator() {}
Actuator_destructor(pm) == NoEffect(pm)

(***************************************************************************)
(* Initialisation: the parameters of the actuator's namespace, the device  *)
(* bus and the RobotHW are the inputs.                                     *)
(***************************************************************************)

\* the four interfaces both classes register to, in the order of the ||
BasicInterfaces ==
  <<"ActuatorStateInterface", "PositionActuatorInterface",
    "VelocityActuatorInterface", "EffortActuatorInterface">>

AllInterfaces ==
  {BasicInterfaces[i] : i \in DOMAIN BasicInterfaces}
    \cup {"Int32StateInterface", "Int32Interface"}

\* the RobotHW has every interface, or lacks the first, a middle or the last
\* of those init asks for
HwChoices ==
  {AllInterfaces} \cup
  {AllInterfaces \ {i} :
     i \in {"ActuatorStateInterface", "VelocityActuatorInterface", "Int32Interface"}}

\* additional_states and additional_commands (sorted names): absent, or one
\* name each
AdditionalChoices ==
  {[states |-> <<>>, commands |-> <<>>],
   [states |-> <<"temperature">>, commands |-> <<"led">>]}

\* operating_mode_map: controller name -> mode string
ModeNameMaps == UNION {[S -> ConfigModeStrs] : S \in SUBSET Controllers}

\* has_*: whether getParam finds the parameter; ping: whether the device with
\* the id answers; additional_*: the (sorted) names of the additional states
\* and commands; hw: the interfaces hw->get<>() finds
Configs ==
  [has_id                 : BOOLEAN,
   ping                   : BOOLEAN,
   has_torque_constant    : BOOLEAN,
   additional             : AdditionalChoices,
   hw                     : HwChoices,
   has_operating_mode_map : BOOLEAN,
   operating_mode_map     : ModeNameMaps]

Handle(iface, name) == [iface |-> iface, name |-> name]

\* registerActuatorTo< Interface >(hw, handle), applied to one handle after
\* the other until one fails: ifaces are the interfaces, names the handles'
\* names, reg the handles registered so far
RECURSIVE registerActuatorTo(_, _, _, _)
registerActuatorTo(hw, ifaces, names, reg) ==
  IF ifaces = <<>> THEN [ok |-> TRUE, registered |-> reg]
  ELSE IF Head(ifaces) \notin hw THEN [ok |-> FALSE, registered |-> reg]
       ELSE registerActuatorTo(hw, Tail(ifaces), Tail(names),
                               reg \cup {Handle(Head(ifaces), Head(names))})

\* data_->name + "/" + <additional name>; a handle's name is written as the
\* sequence of its parts (<<data_->name>> for the four basic handles)
AdditionalName(n) == <<ActuatorName, n>>

\* the loop that fills mode_map_, from the i-th controller name on: a
\* std::map is walked in the order of its keys
RECURSIVE init_mode_map(_, _, _)
init_mode_map(mode_name_map, i, mm) ==
  IF i > Len(ControllerNames) THEN [ok |-> TRUE, mode_map |-> mm]
  ELSE IF ControllerNames[i] \notin DOMAIN mode_name_map
       THEN init_mode_map(mode_name_map, i + 1, mm)
       ELSE LET mode == makeOperatingMode(mode_name_map[ControllerNames[i]],
                                          ControllerNames[i])
            IN  IF mode = NoMode THEN [ok |-> FALSE, mode_map |-> mm]
                ELSE init_mode_map(mode_name_map, i + 1,
                                   MapAssign(mm, ControllerNames[i], mode))

\* A variant of InitReturn for an init that allocates data_ first, before it
\* reads the parameters and pings the device.
InitReturn_data_first(rets, error, data, reg, mm) ==
  [ret |-> rets, error |-> error, data |-> TRUE, registered |-> reg,
   mode_map |-> mm]

\* error: which ROS_ERROR the call logged
InitReturn(rets, error, data, reg, mm) ==
  [ret |-> rets, error |-> error, data |-> data, registered |-> reg,
   mode_map |-> mm]

\* DynamixelActuator::init on a newly constructed object.  ret is the set of
\* values the call can return.
init(cfg) ==
  IF ~cfg.has_id THEN InitReturn({FALSE}, "id", FALSE, {}, EmptyMap)
  ELSE IF ~cfg.ping THEN InitReturn({FALSE}, "ping", FALSE, {}, EmptyMap)
  ELSE IF ~cfg.has_torque_constant
       THEN InitReturn({FALSE}, "torque_constant", FALSE, {}, EmptyMap)
  ELSE
    LET basic == registerActuatorTo(cfg.hw, BasicInterfaces,
                                    [i \in DOMAIN BasicInterfaces |-> <<ActuatorName>>], {})
        states == registerActuatorTo(
                    cfg.hw,
                    [i \in 1..Len(cfg.additional.states) |-> "Int32StateInterface"],
                    [i \in 1..Len(cfg.additional.states) |->
                       AdditionalName(cfg.additional.states[i])],
                    basic.registered)
        cmds == registerActuatorTo(
                    cfg.hw,
                    [i \in 1..Len(cfg.additional.commands) |-> "Int32Interface"],
                    [i \in 1..Len(cfg.additional.commands) |->
                       AdditionalName(cfg.additional.commands[i])],
                    states.registered)
        modes == init_mode_map(cfg.operating_mode_map, 1, EmptyMap)
    IN  IF ~basic.ok THEN InitReturn({FALSE}, "interface", TRUE, basic.registered, EmptyMap)
        ELSE IF ~states.ok
             THEN InitReturn({FALSE}, "interface", TRUE, states.registered, EmptyMap)
        ELSE IF ~cmds.ok
             THEN InitReturn({FALSE}, "interface", TRUE, cmds.registered, EmptyMap)
        ELSE IF ~cfg.has_operating_mode_map
             THEN InitReturn({FALSE}, "operating_mode_map", TRUE, cmds.registered, EmptyMap)
        ELSE IF ~modes.ok
             THEN InitReturn({FALSE}, "operating mode", TRUE, cmds.registered, modes.mode_map)
        ELSE InitReturn({TRUE}, "", TRUE, cmds.registered, modes.mode_map)

RECURSIVE Actuator_init_mode_map(_, _, _)
Actuator_init_mode_map(mode_name_map, i, mm) ==
  IF i > Len(ControllerNames) THEN [ok |-> TRUE, mode_map |-> mm]
  ELSE IF ControllerNames[i] \notin DOMAIN mode_name_map
       THEN Actuator_init_mode_map(mode_name_map, i + 1, mm)
       ELSE LET mode == Actuator_makeOperatingMode(
                          mode_name_map[ControllerNames[i]], ControllerNames[i])
            IN  IF mode = NoMode THEN [ok |-> FALSE, mode_map |-> mm]
                ELSE Actuator_init_mode_map(mode_name_map, i + 1,
                                            MapAssign(mm, ControllerNames[i], mode))

\* Actuator::init on a newly constructed object.  It reads no additional_*
\* parameter.  After the loop it empties present_mode_ (empty already) and
\* flows off the end of a function that returns bool: the value the caller
\* sees is undefined, either of the two.
Actuator_init(cfg) ==
  IF ~cfg.has_id THEN InitReturn({FALSE}, "id", FALSE, {}, EmptyMap)
  ELSE IF ~cfg.ping THEN InitReturn({FALSE}, "ping", FALSE, {}, EmptyMap)
  ELSE IF ~cfg.has_torque_constant
       THEN InitReturn({FALSE}, "torque_constant", FALSE, {}, EmptyMap)
  ELSE
    LET basic == registerActuatorTo(cfg.hw, BasicInterfaces,
                                    [i \in DOMAIN BasicInterfaces |-> <<ActuatorName>>], {})
        modes == Actuator_init_mode_map(cfg.operating_mode_map, 1, EmptyMap)
    IN  IF ~basic.ok THEN InitReturn({FALSE}, "interface", TRUE, basic.registered, EmptyMap)
        ELSE IF ~cfg.has_operating_mode_map
             THEN InitReturn({FALSE}, "operating_mode_map", TRUE, basic.registered, EmptyMap)
        ELSE IF ~modes.ok
             THEN InitReturn({FALSE}, "operating mode", TRUE, basic.registered, modes.mode_map)
        ELSE InitReturn(BOOLEAN, "", TRUE, basic.registered, modes.mode_map)

(***************************************************************************)
(* The state                                                               *)
(***************************************************************************)

VARIABLES
  cls,            \* the class of the object: "DynamixelActuator" or "Actuator"
  pc,             \* "constructed", "initialized" (init has returned), "destroyed"
  init_error,     \* the error init logged, "" if none
  data_,          \* whether data_ points to an allocated data structure
  registered,     \* the handles registered to the interfaces of the RobotHW
  mode_map_,      \* controller name -> operating mode
  present_mode_,  \* the operating mode in use, or NoMode
  active,         \* ids of the modes whose starting() ran after their stopping()
  op,             \* the method called last
  starting_controller_list,  \* its arguments, for prepareSwitch and doSwitch
  stopping_controller_list,
  ret,            \* what that call returned (TRUE for a method returning void)
  events          \* the hook calls and present_mode_ assignments of that call

vars ==
  <<cls, pc, init_error, data_, registered, mode_map_, present_mode_,
    active, op, starting_controller_list, stopping_controller_list, ret, events>>

\* the modes active after the hook calls of evs
RECURSIVE ActiveAfter(_, _)
ActiveAfter(act, evs) ==
  IF evs = <<>> THEN act
  ELSE ActiveAfter(
         IF Head(evs).call = "starting" THEN act \cup {Head(evs).mode}
         ELSE IF Head(evs).call = "stopping" THEN act \ {Head(evs).mode}
         ELSE act,
         Tail(evs))

Init ==
  /\ cls \in {"DynamixelActuator", "Actuator"}
  /\ pc = "constructed"
  /\ init_error = ""
  /\ data_ = FALSE
  /\ registered = {}
  /\ mode_map_ = EmptyMap
  /\ present_mode_ = NoMode
  /\ active = {}
  /\ op = "constructor"
  /\ starting_controller_list = <<>>
  /\ stopping_controller_list = <<>>
  /\ ret = TRUE
  /\ events = <<>>

\* a call of a method that returns void and takes no controller list
VoidCall(name, r) ==
  /\ op' = name
  /\ starting_controller_list' = <<>>
  /\ stopping_controller_list' = <<>>
  /\ ret' = TRUE
  /\ present_mode_' = r.present
  /\ events' = r.events
  /\ active' = ActiveAfter(active, r.events)

InitCall(r) ==
  /\ pc' = "initialized"
  /\ op' = "init"
  /\ ret' \in r.ret
  /\ init_error' = r.error
  /\ data_' = r.data
  /\ registered' = r.registered
  /\ mode_map_' = r.mode_map
  /\ UNCHANGED <<cls, present_mode_, active, starting_controller_list,
                 stopping_controller_list, events>>

SwitchCall(name, starting, stopping, r, returned) ==
  /\ op' = name
  /\ starting_controller_list' = starting
  /\ stopping_controller_list' = stopping
  /\ ret' = returned
  /\ present_mode_' = r.present
  /\ events' = r.events
  /\ active' = ActiveAfter(active, r.events)

(***************************************************************************)
(* The calls on a DynamixelActuator                                        *)
(***************************************************************************)

CallInit ==
  /\ cls = "DynamixelActuator"
  /\ pc = "constructed"
  /\ \E cfg \in Configs : InitCall(init(cfg))

CallPrepareSwitch ==
  /\ cls = "DynamixelActuator"
  /\ pc = "initialized"
  /\ \E rq \in Requests :
       LET r == prepareSwitch(present_mode_, mode_map_, rq[1], rq[2])
       IN  /\ SwitchCall("prepareSwitch", rq[1], rq[2], r, r.ret)
           /\ mode_map_' = r.mode_map
  /\ UNCHANGED <<cls, pc, init_error, data_, registered>>

CallDoSwitch ==
  /\ cls = "DynamixelActuator"
  /\ pc = "initialized"
  /\ \E rq \in Requests :
       SwitchCall("doSwitch", rq[1], rq[2],
                  doSwitch(present_mode_, mode_map_, rq[1], rq[2]), TRUE)
  /\ UNCHANGED <<cls, pc, init_error, data_, registered, mode_map_>>

CallRead ==
  /\ cls = "DynamixelActuator"
  /\ pc = "initialized"
  /\ VoidCall("read", read(present_mode_))
  /\ UNCHANGED <<cls, pc, init_error, data_, registered, mode_map_>>

CallWrite ==
  /\ cls = "DynamixelActuator"
  /\ pc = "initialized"
  /\ VoidCall("write", write(present_mode_))
  /\ UNCHANGED <<cls, pc, init_error, data_, registered, mode_map_>>

\* the object is destroyed; it can be destroyed before init was called
Destroy ==
  /\ cls = "DynamixelActuator"
  /\ pc # "destroyed"
  /\ pc' = "destroyed"
  /\ VoidCall("destructor", destructor(present_mode_))
  /\ UNCHANGED <<cls, init_error, data_, registered, mode_map_>>

(***************************************************************************)
(* The calls on an Actuator                                                *)
(***************************************************************************)

Actuator_CallInit ==
  /\ cls = "Actuator"
  /\ pc = "constructed"
  /\ \E cfg \in Configs : InitCall(Actuator_init(cfg))

Actuator_CallDoSwitch ==
  /\ cls = "Actuator"
  /\ pc = "initialized"
  /\ \E rq \in Requests :
       SwitchCall("doSwitch", rq[1], rq[2],
                  Actuator_doSwitch(present_mode_, mode_map_, rq[1], rq[2]), TRUE)
  /\ UNCHANGED <<cls, pc, init_error, data_, registered, mode_map_>>

Actuator_CallRead ==
  /\ cls = "Actuator"
  /\ pc = "initialized"
  /\ VoidCall("read", Actuator_read(present_mode_))
  /\ UNCHANGED <<cls, pc, init_error, data_, registered, mode_map_>>

Actuator_CallWrite ==
  /\ cls = "Actuator"
  /\ pc = "initialized"
  /\ VoidCall("write", Actuator_write(present_mode_))
  /\ UNCHANGED <<cls, pc, init_error, data_, registered, mode_map_>>

Actuator_Destroy ==
  /\ cls = "Actuator"
  /\ pc # "destroyed"
  /\ pc' = "destroyed"
  /\ VoidCall("destructor", Actuator_destructor(present_mode_))
  /\ UNCHANGED <<cls, init_error, data_, registered, mode_map_>>

Next ==
  \/ CallInit
  \/ CallPrepareSwitch
  \/ CallDoSwitch
  \/ CallRead
  \/ CallWrite
  \/ Destroy
  \/ Actuator_CallInit
  \/ Actuator_CallDoSwitch
  \/ Actuator_CallRead
  \/ Actuator_CallWrite
  \/ Actuator_Destroy

Spec == Init /\ [][Next]_vars

(***************************************************************************)
(* The two-phase protocol of the framework: doSwitch is called only with   *)
(* the lists prepareSwitch has just accepted.  Only DynamixelActuator has  *)
(* a prepareSwitch.                                                        *)
(***************************************************************************)

InitValidated == Init /\ cls = "DynamixelActuator"

CallDoSwitchAccepted ==
  /\ cls = "DynamixelActuator"
  /\ pc = "initialized"
  /\ op = "prepareSwitch"
  /\ ret = TRUE
  /\ SwitchCall("doSwitch", starting_controller_list, stopping_controller_list,
                doSwitch(present_mode_, mode_map_, starting_controller_list,
                         stopping_controller_list),
                TRUE)
  /\ UNCHANGED <<cls, pc, init_error, data_, registered, mode_map_>>

NextValidated ==
  \/ CallInit
  \/ CallPrepareSwitch
  \/ CallDoSwitchAccepted
  \/ CallRead
  \/ CallWrite
  \/ Destroy

SpecValidated == InitValidated /\ [][NextValidated]_vars

(***************************************************************************)
(* Vocabulary of the properties                                            *)
(***************************************************************************)

\* the positions of the calls of `hook` among the events of the last call
Calls(hook) == {i \in DOMAIN events : events[i].call = hook}

\* the controller names of mode_map_ (every entry holds a mode)
Registered(name) == MapHas(mode_map_, name) /\ mode_map_[name] # NoMode

\* the last call was `name` with these lists
Called(name, starting, stopping) ==
  /\ op = name
  /\ starting_controller_list = starting
  /\ stopping_controller_list = stopping

\* the step is a call of `name` with these lists
Calling(name, starting, stopping) ==
  /\ op' = name
  /\ starting_controller_list' = starting
  /\ stopping_controller_list' = stopping
  /\ vars' # vars

(***************************************************************************)
(* Properties                                                              *)
(***************************************************************************)

\* C1: under the two-phase protocol (doSwitch only with the lists that
\* prepareSwitch has just accepted), starting from an actuator without a
\* present mode, at most one mode is active in every reachable state (active:
\* its starting() was invoked more recently than its stopping()), and the
\* active mode, if any, is exactly present_mode_.
C1_MutualExclusion ==
  /\ Cardinality(active) <= 1
  /\ active = IF present_mode_ = NoMode THEN {} ELSE {present_mode_.id}

\* an accepted switch has replaced one mode by another
C1_Witness ==
  /\ op = "doSwitch"
  /\ Calls("stopping") # {}
  /\ Calls("starting") # {}
  /\ active = {present_mode_.id}
  /\ Cardinality(DOMAIN mode_map_) = 2

\* C2: prepareSwitch is a pure predicate: a call, accepting or rejecting,
\* leaves present_mode_, mode_map_ and everything else of the actuator
\* unchanged and invokes no hook; a repeated call with the same lists in the
\* same state returns the same result.
C2_PrepareSwitchPure ==
  [][(op' = "prepareSwitch" /\ vars' # vars) =>
       /\ present_mode_' = present_mode_
       /\ mode_map_' = mode_map_
       /\ events' = <<>>
       /\ active' = active
       /\ UNCHANGED <<data_, registered, pc, init_error>>
       /\ (/\ op = "prepareSwitch"
           /\ starting_controller_list' = starting_controller_list
           /\ stopping_controller_list' = stopping_controller_list)
          => ret' = ret]_vars

\* prepareSwitch has rejected a request that names a controller without an
\* entry, while a mode is present
C2_Witness ==
  /\ op = "prepareSwitch"
  /\ ~ret
  /\ present_mode_ # NoMode
  /\ active = {present_mode_.id}
  /\ \E i \in DOMAIN starting_controller_list :
       ~MapHas(mode_map_, starting_controller_list[i])

\* the k of C3: 1 when a mode is present and no element of the stopping list
\* maps through mode_map_ to it, else 0
C3_k ==
  IF /\ present_mode_ # NoMode
     /\ ~\E i \in DOMAIN stopping_controller_list :
           /\ MapHas(mode_map_, stopping_controller_list[i])
           /\ mode_map_[stopping_controller_list[i]] = present_mode_
  THEN 1 ELSE 0

\* the s of C3: the number of elements of the starting list whose name has an
\* entry in mode_map_
C3_s ==
  Cardinality({i \in DOMAIN starting_controller_list :
                 MapHas(mode_map_, starting_controller_list[i])})

\* C3: prepareSwitch returns true if and only if k + s <= 1, with s the number
\* of elements of the starting list that have an entry in mode_map_, and k = 1
\* when a mode is present and no element of the stopping list maps to it, else
\* k = 0.  (The call changes no member, so the state after it is the state
\* it decided on.)
C3_FeasibleIffAtMostOne ==
  op = "prepareSwitch" => (ret <=> C3_k + C3_s <= 1)

\* a request that stops the present mode and starts two is rejected
C3_Witness ==
  /\ op = "prepareSwitch"
  /\ present_mode_ # NoMode
  /\ C3_k = 0
  /\ C3_s = 2
  /\ ~ret

\* C4: every call of doSwitch, of either class and with any lists, invokes at
\* most one stopping() and at most one starting(); when it invokes both,
\* stopping() has returned and present_mode_ has been emptied before
\* starting() is invoked.
C4_StopThenStart ==
  op = "doSwitch" =>
    /\ Cardinality(Calls("stopping")) <= 1
    /\ Cardinality(Calls("starting")) <= 1
    /\ \A i \in Calls("stopping"), j \in Calls("starting") :
         /\ i + 1 < j
         /\ events[i + 1] = AssignPresent(NoMode)

\* a doSwitch whose starting list names two controllers with a mode has
\* stopped one mode and started one
C4_Witness ==
  /\ op = "doSwitch"
  /\ Calls("stopping") # {}
  /\ Calls("starting") # {}
  /\ Len(starting_controller_list) = 2
  /\ \A i \in DOMAIN starting_controller_list :
       Registered(starting_controller_list[i])
  /\ starting_controller_list[1] # starting_controller_list[2]

\* C5: when present_mode_ is the entry of controller c and d is another
\* controller with an entry, prepareSwitch(start = [d], stop = [c]) returns
\* true, and doSwitch with the same lists calls stopping() on the old mode
\* once, then starting() on the entry of d once, and leaves present_mode_ equal
\* to the entry of d.
C5_ReplacePresentMode ==
  [][\A c \in Controllers, d \in Controllers :
       (/\ Registered(c)
        /\ Registered(d)
        /\ c # d
        /\ present_mode_ = mode_map_[c])
       => /\ Calling("prepareSwitch", <<d>>, <<c>>) => ret' = TRUE
          /\ Calling("doSwitch", <<d>>, <<c>>) =>
               /\ events' = <<HookCall("stopping", mode_map_[c]),
                              AssignPresent(NoMode),
                              AssignPresent(mode_map_[d]),
                              HookCall("starting", mode_map_[d])>>
               /\ present_mode_' = mode_map_[d]
               /\ active' = {mode_map_[d].id}]_vars

\* doSwitch(start = [d], stop = [c]) has replaced the mode of c by that of d
C5_Witness ==
  \E c \in Controllers, d \in Controllers :
    /\ c # d
    /\ Registered(c)
    /\ Registered(d)
    /\ Called("doSwitch", <<d>>, <<c>>)
    /\ Calls("stopping") = {1}
    /\ events[1].mode = mode_map_[c].id
    /\ present_mode_ = mode_map_[d]

\* C6: when no mode is present and c is a controller with an entry,
\* prepareSwitch(start = [c], stop = []) returns true, and doSwitch with the
\* same lists sets present_mode_ to the entry of c, calls that mode's
\* starting() once and calls no stopping().
C6_StartFromIdle ==
  [][\A c \in Controllers :
       (present_mode_ = NoMode /\ Registered(c))
       => /\ Calling("prepareSwitch", <<c>>, <<>>) => ret' = TRUE
          /\ Calling("doSwitch", <<c>>, <<>>) =>
               /\ present_mode_' = mode_map_[c]
               /\ events' = <<AssignPresent(mode_map_[c]),
                              HookCall("starting", mode_map_[c])>>
               /\ active' = active \cup {mode_map_[c].id}]_vars

\* doSwitch(start = [c], stop = []) has started the mode of c from idle
C6_Witness ==
  \E c \in Controllers :
    /\ Registered(c)
    /\ Called("doSwitch", <<c>>, <<>>)
    /\ Calls("starting") = {2}
    /\ Calls("stopping") = {}
    /\ present_mode_ = mode_map_[c]
    /\ active = {c}

\* C7: whenever a mode is present, prepareSwitch(start = [d], stop = []) returns
\* false for every controller d with an entry, and present_mode_ is the same
\* mode after the call as before it.
C7_SecondStartVetoed ==
  [][\A d \in Controllers :
       (/\ present_mode_ # NoMode
        /\ Registered(d)
        /\ Calling("prepareSwitch", <<d>>, <<>>))
       => /\ ret' = FALSE
          /\ present_mode_' = present_mode_
          /\ active' = active]_vars

\* prepareSwitch has rejected the start of a second mode
C7_Witness ==
  \E d \in Controllers :
    /\ Registered(d)
    /\ Called("prepareSwitch", <<d>>, <<>>)
    /\ present_mode_ # NoMode
    /\ present_mode_ # mode_map_[d]
    /\ ret = FALSE

\* a and b are two controller names of one mode kind, and the mode made for a
\* is present (it was started through a)
C8_SameKind(a, b) ==
  /\ a # b
  /\ Registered(a)
  /\ Registered(b)
  /\ mode_map_[a].name = mode_map_[b].name
  /\ present_mode_ = mode_map_[a]

C9_FailsBeforeRegistration ==
  init_error = "operating mode" =>
    /\ op = "init" => ret = FALSE
    /\ registered = {}

\* C10: when making the mode of some entry of operating_mode_map fails because
\* the mode string is unknown, init returns false and mode_map_ keeps no entry,
\* so that no mode can become present on this actuator.
C10_AllOrNothing ==
  init_error = "operating mode" =>
    /\ op = "init" => ret = FALSE
    /\ mode_map_ = EmptyMap
    /\ present_mode_ = NoMode


\* C11: read and write dispatch to the present mode only.  With no mode present
\* a call invokes no hook and changes nothing; with a mode present read invokes
\* exactly that mode's read() once and write exactly its write() once, and no
\* hook of any other mode.  Neither changes a member.
C11_ReadWriteDispatch ==
  [][(op' \in {"read", "write"} /\ vars' # vars) =>
       /\ events' = IF present_mode_ = NoMode THEN <<>>
                    ELSE <<HookCall(op', present_mode_)>>
       /\ present_mode_' = present_mode_
       /\ active' = active
       /\ UNCHANGED <<mode_map_, data_, registered, pc, init_error>>]_vars

\* write has delegated to the present mode while the other controller has a
\* mode of its own
C11_Witness ==
  /\ op = "write"
  /\ present_mode_ # NoMode
  /\ events = <<HookCall("write", present_mode_)>>
  /\ \E c \in DOMAIN mode_map_ : mode_map_[c] # present_mode_

\* C12: if the device with the configured id does not answer the ping, init
\* returns false, and no data structure has been allocated, no handle has been
\* registered and no operating mode has been made.
C12_PingFailure ==
  init_error = "ping" =>
    /\ op = "init" => ret = FALSE
    /\ data_ = FALSE
    /\ registered = {}
    /\ mode_map_ = EmptyMap
    /\ present_mode_ = NoMode

\* init has just failed on the ping
C12_Witness ==
  /\ init_error = "ping"
  /\ op = "init"
  /\ pc = "initialized"
  /\ ret = FALSE


\* whether the hook calls of evs, made one after the other when the modes of
\* act are active, respect each mode's lifecycle: starting() only on a mode
\* that is not active, stopping(), read() and write() only on one that is
RECURSIVE C13_Lifecycle(_, _)
C13_Lifecycle(act, evs) ==
  IF evs = <<>> THEN TRUE
  ELSE LET e == Head(evs)
       IN  IF e.call = "starting"
           THEN e.mode \notin act /\ C13_Lifecycle(act \cup {e.mode}, Tail(evs))
           ELSE IF e.call = "stopping"
           THEN e.mode \in act /\ C13_Lifecycle(act \ {e.mode}, Tail(evs))
           ELSE IF e.call \in {"read", "write"}
           THEN e.mode \in act /\ C13_Lifecycle(act, Tail(evs))
           ELSE C13_Lifecycle(act, Tail(evs))

\* C13: over any sequence of calls (doSwitch with arbitrary lists), the hook
\* calls on each mode M have the form (starting, read/write any number of
\* times, stopping) repeated: starting() is never invoked on M twice without a
\* stopping() in between, stopping() only when M was started and not yet
\* stopped, read() and write() only between starting() and the next stopping().
C13_HookLifecycle ==
  [][vars' # vars => C13_Lifecycle(active, events')]_vars

\* a doSwitch has stopped the started mode and started nothing
C13_Witness ==
  /\ op = "doSwitch"
  /\ Calls("stopping") = {1}
  /\ Calls("starting") = {}
  /\ active = {}
  /\ present_mode_ = NoMode

\* C14: whenever the starting list holds two or more controllers that have an
\* entry in mode_map_, prepareSwitch returns false, whether or not a mode is
\* present, whether or not the stopping list stops it, and whether or not the
\* entries are of one mode kind.
C14_TwoStartsRejected ==
  (op = "prepareSwitch" /\ C3_s >= 2) => ret = FALSE

\* two controllers of one mode kind were to start and the present mode to
\* stop: rejected
C14_Witness ==
  /\ op = "prepareSwitch"
  /\ Len(starting_controller_list) = 2
  /\ starting_controller_list[1] # starting_controller_list[2]
  /\ \A i \in DOMAIN starting_controller_list :
       Registered(starting_controller_list[i])
  /\ mode_map_[starting_controller_list[1]].name
       = mode_map_[starting_controller_list[2]].name
  /\ present_mode_ # NoMode
  /\ C3_k = 0
  /\ ret = FALSE


\* C15: in every reachable state, after a successful or a failed init and
\* after any sequence of calls with arbitrary lists, present_mode_ is either
\* empty or the value of an entry that mode_map_ holds.
C15_PresentInRegistry ==
  \/ present_mode_ = NoMode
  \/ \E name \in DOMAIN mode_map_ : mode_map_[name] = present_mode_

\* a mode of the part of mode_map_ that a failed init has built is present
C15_Witness ==
  /\ init_error = "operating mode"
  /\ op = "doSwitch"
  /\ present_mode_ # NoMode
  /\ \E name \in DOMAIN mode_map_ : mode_map_[name] = present_mode_


\* C16 (as stated): doSwitch is the only operation that changes
\* present_mode_; init, prepareSwitch, read, write and the destruction leave
\* it unchanged.
C16_OnlyDoSwitch ==
  [][present_mode_' # present_mode_ => op' = "doSwitch"]_vars

\* C16 (amended): doSwitch and the destructor of DynamixelActuator are the
\* only operations that change present_mode_; init, prepareSwitch, read,
\* write and the destructor of Actuator leave it unchanged.
C16_OnlySwitchOrDestructor ==
  [][present_mode_' # present_mode_ =>
       \/ op' = "doSwitch"
       \/ op' = "destructor" /\ cls = "DynamixelActuator"]_vars

\* a DynamixelActuator was destroyed with a mode present: the destructor has
\* stopped the mode and emptied present_mode_
C16_Witness ==
  /\ cls = "DynamixelActuator"
  /\ op = "destructor"
  /\ Calls("stopping") # {}
  /\ present_mode_ = NoMode


\* C17: prepareSwitch simulates doSwitch: for every state and every request
\* that prepareSwitch accepts, doSwitch with the same lists from that state
\* leaves a mode present if and only if the count n_modes of prepareSwitch is
\* 1; every starting controller that has an entry in mode_map_ has its entry
\* as present_mode_ afterwards; and a present mode that the stopping list names
\* does not remain present unless it is the one started.
C17_PrepareSimulatesDoSwitch ==
  [][(op = "prepareSwitch" /\ ret = TRUE /\ op' = "doSwitch") =>
       LET starting == starting_controller_list'
           stopping == stopping_controller_list'
           n_modes  == prepareSwitch_n_modes(present_mode_, mode_map_,
                                             starting, stopping)
           started  == {starting[i] : i \in {j \in DOMAIN starting :
                                               Registered(starting[j])}}
           stopped  == {stopping[i] : i \in {j \in DOMAIN stopping :
                                               Registered(stopping[j])}}
       IN  /\ starting = starting_controller_list
           /\ stopping = stopping_controller_list
           /\ present_mode_' # NoMode <=> n_modes = 1
           /\ \A c \in started : present_mode_' = mode_map_[c]
           /\ \A c \in stopped :
                (present_mode_ = mode_map_[c] /\ present_mode_' = present_mode_)
                  => \E d \in started : mode_map_[d] = present_mode_
                       /\ Calls("starting")' # {}]_vars

\* an accepted request has stopped the present mode and started it again
C17_Witness ==
  /\ op = "doSwitch"
  /\ Calls("stopping") = {1}
  /\ Calls("starting") = {4}
  /\ events[1].mode = events[4].mode
  /\ present_mode_.id = events[4].mode
  /\ Len(stopping_controller_list) = 1


\* C18: doSwitch is safe without validation: for any state and any lists,
\* also those prepareSwitch would reject or was never asked about (Actuator
\* has no prepareSwitch), doSwitch calls a starting() only when present_mode_
\* was empty at that moment (the mode is assigned to an empty present_mode_
\* just before); when a mode is present and no element of the stopping list
\* maps to it, doSwitch starts nothing and leaves present_mode_ unchanged; so
\* the number of active modes never exceeds one.
C18_SafeWithoutValidation ==
  [][(op' = "doSwitch" /\ vars' # vars) =>
       /\ \A j \in Calls("starting")' :
            /\ j >= 2
            /\ events'[j - 1].call = "present_mode_ ="
            /\ events'[j - 1].mode = events'[j].mode
            /\ IF j = 2 THEN present_mode_ = NoMode
               ELSE events'[j - 2] = AssignPresent(NoMode)
       /\ (/\ present_mode_ # NoMode
           /\ ~\E i \in DOMAIN stopping_controller_list' :
                 /\ MapHas(mode_map_, stopping_controller_list'[i])
                 /\ mode_map_[stopping_controller_list'[i]] = present_mode_)
            => /\ events' = <<>>
               /\ present_mode_' = present_mode_
               /\ active' = active
       /\ Cardinality(active') <= 1]_vars

\* an Actuator, which has no prepareSwitch, was asked to start the mode of
\* another controller while a mode was present and not stopped: nothing done
C18_Witness ==
  /\ cls = "Actuator"
  /\ op = "doSwitch"
  /\ present_mode_ # NoMode
  /\ active = {present_mode_.id}
  /\ events = <<>>
  /\ \E i \in DOMAIN starting_controller_list :
       /\ Registered(starting_controller_list[i])
       /\ mode_map_[starting_controller_list[i]] # present_mode_
  /\ \A i \in DOMAIN stopping_controller_list :
       ~(/\ MapHas(mode_map_, stopping_controller_list[i])
         /\ mode_map_[stopping_controller_list[i]] = present_mode_)


\* the permutations of a list
C19_Perms(list) ==
  {[i \in DOMAIN list |-> list[p[i]]] :
     p \in {q \in [DOMAIN list -> DOMAIN list] :
              \A a \in DOMAIN list, b \in DOMAIN list : q[a] = q[b] => a = b}}

\* C19: for every state and every request that prepareSwitch accepts, the
\* result of doSwitch (the present_mode_ it leaves and the sequence of hooks it
\* calls) is the same for every permutation of the starting list and of the
\* stopping list, and prepareSwitch accepts every such permutation as well.
C19_OrderIndependent ==
  [][(op = "prepareSwitch" /\ ret = TRUE /\ op' = "doSwitch") =>
       \A starting \in C19_Perms(starting_controller_list),
          stopping \in C19_Perms(stopping_controller_list) :
         /\ prepareSwitch(present_mode_, mode_map_, starting, stopping).ret
         /\ doSwitch(present_mode_, mode_map_, starting, stopping)
              = [present |-> present_mode_', events |-> events']]_vars

\* an accepted request whose starting list holds a controller without an
\* entry before the one that was started
C19_Witness ==
  /\ op = "doSwitch"
  /\ Len(starting_controller_list) = 2
  /\ ~MapHas(mode_map_, starting_controller_list[1])
  /\ Registered(starting_controller_list[2])
  /\ present_mode_ = mode_map_[starting_controller_list[2]]
  /\ Calls("starting") # {}


\* C20: when the actuator is destroyed while a mode is present, the
\* destruction calls that mode's stopping() exactly once and empties
\* present_mode_; when no mode is present it calls no hook.  So no mode that was
\* started remains without its stopping() when the actuator is gone.
C20_ShutdownStopsActiveMode ==
  [][op' = "destructor" =>
       /\ IF present_mode_ # NoMode
          THEN /\ events' = <<HookCall("stopping", present_mode_),
                              AssignPresent(NoMode)>>
               /\ present_mode_' = NoMode
          ELSE /\ events' = <<>>
               /\ present_mode_' = NoMode
       /\ active' = {}]_vars

====
